---- MODULE Spec2Model ----
(***************************************************************************)
(* Model of tracking/session.py: the Session event logger.                 *)
(*                                                                         *)
(* Time is counted in clock ticks; a second holds TicksPerSecond ticks.    *)
(* The wall clock `now` is read by datetime.now(); it advances between     *)
(* calls (Tick) and between two reads made by one method.                  *)
(***************************************************************************)
EXTENDS Integers, Sequences, FiniteSets, TLC

\* ---------------------------------------------------------------- bounds
MaxTime == 2
MaxCalls == 4
TicksPerSecond == 2
\* The last reading of time.time() the detection loop is followed to, in seconds.
MaxClock == 150
\* Processes competing for the instance lock, and lock files ever created.
NumProcs == 3
MaxInodes == 3
\* Threads calling get_license_manager, and reset_license_manager calls followed.
NumThreads == 2
MaxResets == 1

\* ------------------------------------------------------------- constants
\* Python's None for an Optional[datetime] field or argument.
None == -1
\* Python's None for Optional[str] current_state.
NoState == "<None>"

EVENT_PRESENT == "present"
EVENT_AWAY == "away"
EVENT_GADGET_SUSPECTED == "gadget_suspected"
\* config.EVENT_PHONE_SUSPECTED is named by gui/app.py (1063, 1116) and by
\* tracking/session.py (97); the config.py at hand defines no such name (it
\* has EVENT_GADGET_SUSPECTED instead).  Its value is the label the report
\* generator and the Session docstring use.
EVENT_PHONE_SUSPECTED == "phone_suspected"

UNFOCUSED_ALERT_TIMES == <<20, 60, 120>>
\* The badge texts of config.UNFOCUSED_ALERT_MESSAGES.
UNFOCUSED_ALERT_MESSAGES == <<"Focus paused", "Quick check-in", "Reminder">>

\* The labels a caller passes to log_event: the kind is an unvalidated str,
\* so the empty string is one of them.
Kinds == {EVENT_PRESENT, EVENT_AWAY, ""}

\* json null, and the "no file written yet" / "nothing loaded yet" markers.
JsonNull == <<>>
NoFile == [written |-> FALSE]
NoSession == [loaded |-> FALSE]
\* config.ALERT_POPUP_DURATION, in seconds.
ALERT_POPUP_DURATION == 10
\* The delay of root.after(1500, ...) before an alert's popup, in half seconds.
PopupDelay == 3
\* NotificationPopup._active_popup is None.
NoPopup == [badge |-> "<no popup>", until |-> 0]
\* No alert was played at the last sample.
NoAlert == "<no alert>"
\* No shared display value has been read or written yet.
NoAccess == [thread |-> "none", field |-> "none", op |-> "none", locked |-> TRUE]

VARIABLES
    now,                \* the wall clock, in ticks
    session_id,         \* Session.session_id, a sequence of space-separated words
    start_time,         \* Session.start_time (None or ticks)
    end_time,           \* Session.end_time (None or ticks)
    events,             \* Session.events
    current_state,      \* Session.current_state (NoState or a kind)
    state_start_time,   \* Session.state_start_time (None or ticks)
    file,               \* the JSON document written by save()
    loaded,             \* the Session returned by Session.load(file)
    last_op,            \* history: the method called by the last step
    ncalls,             \* history: number of method calls made
    nstart,             \* history: number of start() calls
    nend,               \* history: number of end() calls
    nchanges,           \* history: log_event calls since start() whose kind differed
    opened,             \* history: kinds of the intervals opened since start()
    phase,              \* history: position in the lifecycle start, log_event*, end
    saved               \* history: the session fields at the last save()

VARIABLES
    clock,                  \* time.time() as the detection loop last read it, in seconds
    unfocused_start_time,   \* GavinGUI.unfocused_start_time (None or seconds)
    alerts_played,          \* GavinGUI.alerts_played
    alert_shown,            \* what _play_unfocused_alert did at the last sample
    sample_kind,            \* history: the kind of the last classified sample
    run_start,              \* history: clock at the first sample of the unfocused run
    run_len,                \* history: samples seen in the unfocused run (2 = two or more)
    run_fired               \* history: alert levels fired in the unfocused run

alertvars == <<clock, unfocused_start_time, alerts_played, alert_shown,
               sample_kind, run_start, run_len, run_fired>>

VARIABLES
    has_session,            \* GavinGUI.session is not None
    is_running,             \* GavinGUI.is_running
    should_stop,            \* GavinGUI.should_stop (threading.Event) is set
    session_started,        \* GavinGUI.session_started
    session_start_time,     \* GavinGUI.session_start_time (None or a datetime)
    current_status,         \* GavinGUI.current_status
    status_queue,           \* _update_status calls scheduled with root.after(0, ...)
    ui_lock,                \* holder of GavinGUI.ui_lock ("free" or "ui")
    ui_pc,                  \* where the UI thread is
    det_pc,                 \* where the detection thread is
    det_kind,               \* event_type of the iteration the detection thread is in
    report,                 \* what _generate_report did
    ui_error,               \* the exception that ended the last UI handler
    close_confirmed,        \* history: the window was closed on a running session
    ended_by_ui,            \* history: a handler set should_stop and called session.end
    last_access             \* history: the last access to a shared display value

guivars == <<has_session, is_running, should_stop, session_started,
             session_start_time, current_status, status_queue, ui_lock,
             ui_pc, det_pc, det_kind, report, ui_error, close_confirmed,
             ended_by_ui, last_access>>

VARIABLES
    done_at,                \* when the last sample's classification returned, in seconds
    popup_timers,           \* pending root.after(1500, _show_alert_popup): badge and due time
    dismiss_timers,         \* pending root.after(0, _dismiss_alert_popup): due times
    active_popup,           \* NotificationPopup._active_popup: its badge and auto-dismiss time
    popup_windows           \* popup windows created and not destroyed

popupvars == <<done_at, popup_timers, dismiss_timers, active_popup, popup_windows>>

VARIABLES
    path_inode,             \* the file LOCK_FILE names (0: the path does not exist)
    inodes_made,            \* lock files created so far
    flock_owner,            \* per lock file, the process whose handle holds the flock (0: none)
    lock_handle,            \* per process, InstanceLock._lock_handle: the file it is open on (0: None)
    lock_acquired,          \* per process, InstanceLock._acquired
    lock_pc,                \* per process, where it is in acquire() or release()
    acquire_result          \* per process, what its last acquire() returned, until it releases

lockvars == <<path_inode, inodes_made, flock_owner, lock_handle, lock_acquired,
              lock_pc, acquire_result>>

VARIABLES
    lm_instance,            \* _license_manager_instance (0: None, else the id of the object)
    lm_lock,                \* holder of _license_manager_lock (0: free)
    lm_pc,                  \* per thread, where it is in get_license_manager
    lm_result,              \* per thread, what its last get_license_manager call returned
    lm_made,                \* LicenseManager objects constructed so far
    lm_resets               \* reset_license_manager calls so far

lmvars == <<lm_instance, lm_lock, lm_pc, lm_result, lm_made, lm_resets>>

VARIABLES
    old_pc,                 \* where the detection thread of the previous session is
    old_kind,               \* event_type of the iteration that thread is in
    button_text,            \* text of start_stop_btn
    error_pending           \* error handler scheduled with root.after(0, ...) and not yet run

restartvars == <<old_pc, old_kind, button_text, error_pending>>

\* The state of the parts of the application a session-only behaviour leaves alone.
extravars == <<popupvars, lockvars, lmvars, restartvars>>

session == <<session_id, start_time, end_time, events, current_state, state_start_time>>
history == <<last_op, ncalls, nstart, nend, nchanges, opened, phase, saved>>
vars == <<now, session, file, loaded, history>>

\* ------------------------------------------------------- pure functions

\* Python truthiness of an Optional[str]: None and "" are both falsy.
TruthyStr(s) == s # NoState /\ s # ""

\* Python truthiness of an Optional[datetime]: every datetime is truthy.
TruthyTime(t) == t # None

\* A formatter that keeps whole seconds only (timespec="seconds").
isoformat_seconds(t) == <<t \div TicksPerSecond>>

\* datetime.isoformat(): seconds, then the sub-second part unless it is zero.
isoformat(t) ==
    IF t % TicksPerSecond = 0
    THEN <<t \div TicksPerSecond>>
    ELSE <<t \div TicksPerSecond, t % TicksPerSecond>>

\* datetime.fromisoformat(): the sub-second part defaults to zero.
fromisoformat(s) ==
    s[1] * TicksPerSecond + (IF Len(s) >= 2 THEN s[2] ELSE 0)

\* Session._generate_session_id at clock value t.
generate_session_id(t) == <<"Gavin-AI", "Monday", isoformat(t)>>

\* Session.__init__: session_id or self._generate_session_id()
init_session_id(supplied, t) ==
    IF supplied # <<>> THEN supplied ELSE generate_session_id(t)

\* The ids a caller supplies; <<>> stands for None and "" (both falsy).
SuppliedIds == {<<>>, <<"test_session">>}

\* A _finalize_current_state that rebinds events to a new one-entry list.
finalize_replacing(evs, cs, sst, t) ==
    IF ~TruthyStr(cs) \/ ~TruthyTime(sst)
    THEN evs
    ELSE <<[type |-> cs,
            start |-> isoformat(sst),
            end |-> isoformat(t),
            duration_seconds |-> t - sst]>>

\* Session._finalize_current_state with its datetime.now() read returning t:
\* the events list afterwards.
finalize_current_state(evs, cs, sst, t) ==
    IF ~TruthyStr(cs) \/ ~TruthyTime(sst)
    THEN evs
    ELSE Append(evs, [type |-> cs,
                      start |-> isoformat(sst),
                      end |-> isoformat(t),
                      duration_seconds |-> t - sst])

\* A get_duration that always measures up to the clock.
get_duration_to_now(st, et, t) ==
    IF ~TruthyTime(st) THEN 0 ELSE t - st

\* Session.get_duration with its datetime.now() read returning t (in ticks).
duration(st, et, t) ==
    IF ~TruthyTime(st) THEN 0
    ELSE (IF TruthyTime(et) THEN et ELSE t) - st

get_duration == duration(start_time, end_time, now)

\* Session.to_dict
to_dict(sid, st, et, evs, t) ==
    [session_id |-> sid,
     start_time |-> IF TruthyTime(st) THEN isoformat(st) ELSE JsonNull,
     end_time |-> IF TruthyTime(et) THEN isoformat(et) ELSE JsonNull,
     duration_seconds |-> duration(st, et, t),
     events |-> evs]

\* Session.load applied to a JSON document.
load_data(data, t) ==
    [loaded |-> TRUE,
     session_id |-> init_session_id(data.session_id, t),
     start_time |-> IF data.start_time # JsonNull
                    THEN fromisoformat(data.start_time) ELSE None,
     end_time |-> IF data.end_time # JsonNull
                  THEN fromisoformat(data.end_time) ELSE None,
     events |-> data.events,
     current_state |-> NoState,
     state_start_time |-> None]

\* ----------------------------------------------------------------- state

\* GavinGUI.__init__ and _start_session: the alert tracking starts cleared.
InitAlert ==
    /\ clock = 0
    /\ unfocused_start_time = None
    /\ alerts_played = 0
    /\ alert_shown = NoAlert
    /\ sample_kind = NoState
    /\ run_start = None
    /\ run_len = 0
    /\ run_fired = <<>>

\* GavinGUI.__init__: no session, no detection thread, the window open.
InitGui ==
    /\ has_session = FALSE
    /\ is_running = FALSE
    /\ should_stop = FALSE
    /\ session_started = FALSE
    /\ session_start_time = None
    /\ current_status = "idle"
    /\ status_queue = <<>>
    /\ ui_lock = "free"
    /\ ui_pc = "idle"
    /\ det_pc = "none"
    /\ det_kind = NoState
    /\ report = "none"
    /\ ui_error = "none"
    /\ close_confirmed = FALSE
    /\ ended_by_ui = FALSE
    /\ last_access = NoAccess

\* No alert has been played: no popup, no timer.
InitPopup ==
    /\ done_at = 0
    /\ popup_timers = <<>>
    /\ dismiss_timers = <<>>
    /\ active_popup = NoPopup
    /\ popup_windows = 0

Procs == 1 .. NumProcs
Inodes == 1 .. MaxInodes

\* No process runs yet: no lock file, no handle.
InitLock ==
    /\ path_inode = 0
    /\ inodes_made = 0
    /\ flock_owner = [i \in Inodes |-> 0]
    /\ lock_handle = [p \in Procs |-> 0]
    /\ lock_acquired = [p \in Procs |-> FALSE]
    /\ lock_pc = [p \in Procs |-> "idle"]
    /\ acquire_result = [p \in Procs |-> "none"]

Threads == 1 .. NumThreads

\* No call of the thread has returned yet.
NoResult == -1

\* Module load: _license_manager_instance = None, the lock free.
InitLicense ==
    /\ lm_instance = 0
    /\ lm_lock = 0
    /\ lm_pc = [t \in Threads |-> "idle"]
    /\ lm_result = [t \in Threads |-> NoResult]
    /\ lm_made = 0
    /\ lm_resets = 0

InitRestart ==
    /\ old_pc = "none"
    /\ old_kind = NoState
    /\ button_text = "Start Session"
    /\ error_pending = "none"

Init ==
    /\ now = 0
    /\ \E supplied \in SuppliedIds : session_id = init_session_id(supplied, now)
    /\ start_time = None
    /\ end_time = None
    /\ events = <<>>
    /\ current_state = NoState
    /\ state_start_time = None
    /\ file = NoFile
    /\ loaded = NoSession
    /\ last_op = "init"
    /\ ncalls = 0
    /\ nstart = 0
    /\ nend = 0
    /\ nchanges = 0
    /\ opened = <<>>
    /\ phase = "new"
    /\ saved = NoSession
    /\ InitAlert
    /\ InitGui
    /\ InitPopup
    /\ InitLock
    /\ InitLicense
    /\ InitRestart

\* Time passes between two calls.
Tick ==
    /\ now < MaxTime
    /\ now' = now + 1
    /\ last_op' = "tick"
    /\ UNCHANGED <<session, file, loaded, ncalls, nstart, nend, nchanges, opened, phase, saved>>

\* A start() that opens no interval (state_start_time left alone).
start_unanchored ==
    /\ ncalls < MaxCalls
    /\ start_time' = now
    /\ current_state' = EVENT_PRESENT
    /\ last_op' = "start"
    /\ ncalls' = ncalls + 1
    /\ nstart' = nstart + 1
    /\ nchanges' = 0
    /\ opened' = <<EVENT_PRESENT>>
    /\ phase' = IF phase = "new" THEN "started" ELSE "misused"
    /\ UNCHANGED <<now, session_id, end_time, events, state_start_time,
                   file, loaded, nend, saved>>

\* Session.start()
start ==
    /\ ncalls < MaxCalls
    /\ start_time' = now
    /\ current_state' = EVENT_PRESENT
    /\ state_start_time' = now
    /\ last_op' = "start"
    /\ ncalls' = ncalls + 1
    /\ nstart' = nstart + 1
    /\ nchanges' = 0
    /\ opened' = <<EVENT_PRESENT>>
    /\ phase' = IF phase = "new" THEN "started" ELSE "misused"
    /\ UNCHANGED <<now, session_id, end_time, events, file, loaded, nend, saved>>

\* A log_event without the "is this a state change" test of line 84.
log_event_unguarded(event_type, timestamp, d) ==
    LET ts == IF timestamp = None THEN now ELSE timestamp
    IN  /\ ncalls < MaxCalls
        /\ now' = now + d
        /\ events' = finalize_current_state(events, current_state,
                                          state_start_time, now + d)
        /\ current_state' = event_type
        /\ state_start_time' = ts
        /\ last_op' = "log_event"
        /\ ncalls' = ncalls + 1
        /\ nchanges' = nchanges
        /\ opened' = opened
        /\ phase' = IF phase = "started" THEN "started" ELSE "misused"
        /\ UNCHANGED <<session_id, start_time, end_time, file, loaded, nstart, nend, saved>>

\* Session.log_event(event_type, timestamp); timestamp = None when omitted.
\* d is the time that passes between the method's two clock reads (the
\* default timestamp, then _finalize_current_state's datetime.now()).
log_event(event_type, timestamp, d) ==
    LET ts == IF timestamp = None THEN now ELSE timestamp
        changed == event_type # current_state
    IN  /\ ncalls < MaxCalls
        /\ now' = now + d
        /\ IF changed
           THEN /\ events' = finalize_current_state(events, current_state,
                                                  state_start_time, now + d)
                /\ current_state' = event_type
                /\ state_start_time' = ts
           ELSE UNCHANGED <<events, current_state, state_start_time>>
        /\ last_op' = "log_event"
        /\ ncalls' = ncalls + 1
        /\ nchanges' = IF changed /\ nstart > 0 THEN nchanges + 1 ELSE nchanges
        /\ opened' = IF changed /\ nstart > 0 THEN Append(opened, event_type) ELSE opened
        /\ phase' = IF phase = "started" THEN "started" ELSE "misused"
        /\ UNCHANGED <<session_id, start_time, end_time, file, loaded, nstart, nend, saved>>

\* Session.end(); d is the time that passes between the read that sets
\* end_time and _finalize_current_state's own datetime.now().
end(d) ==
    /\ ncalls < MaxCalls
    /\ now' = now + d
    /\ end_time' = now
    /\ events' = finalize_current_state(events, current_state, state_start_time, now + d)
    /\ last_op' = "end"
    /\ ncalls' = ncalls + 1
    /\ nend' = nend + 1
    /\ phase' = IF phase = "started" THEN "ended" ELSE "misused"
    /\ UNCHANGED <<session_id, start_time, current_state, state_start_time,
                   file, loaded, nstart, nchanges, opened, saved>>

\* Session.save(): json.dump(self.to_dict()) to <session_id>.json
save ==
    /\ ncalls < MaxCalls
    /\ file' = [written |-> TRUE,
                data |-> to_dict(session_id, start_time, end_time, events, now)]
    /\ saved' = [loaded |-> TRUE, session_id |-> session_id,
                 start_time |-> start_time, end_time |-> end_time,
                 events |-> events]
    /\ last_op' = "save"
    /\ ncalls' = ncalls + 1
    /\ UNCHANGED <<now, session, loaded, nstart, nend, nchanges, opened, phase>>

\* Session.load(filepath) on the file save() wrote.
load ==
    /\ ncalls < MaxCalls
    /\ file.written
    /\ loaded' = load_data(file.data, now)
    /\ last_op' = "load"
    /\ ncalls' = ncalls + 1
    /\ UNCHANGED <<now, session, file, nstart, nend, nchanges, opened, phase, saved>>

\* The timestamps a caller passes explicitly: behind or ahead of the clock.
Timestamps == {t \in {now - 1, now + 1} : t >= 0 /\ t <= MaxTime}

\* The time that can pass between a method's first clock read and the read
\* in _finalize_current_state; none when the method does not get that far.
Finalizes == TruthyStr(current_state) /\ TruthyTime(state_start_time)

Delays(finalizing) == {d \in 0..1 : now + d <= MaxTime /\ (d = 0 \/ finalizing)}

LogEventNow ==
    \E k \in Kinds : \E d \in Delays(k # current_state /\ Finalizes) : log_event(k, None, d)

LogEventAt == \E k \in Kinds, t \in Timestamps : log_event(k, t, 0)

EndSession == \E d \in Delays(Finalizes) : end(d)

Next ==
    \/ Tick /\ UNCHANGED <<alertvars, guivars, extravars>>
    \/ start /\ UNCHANGED <<alertvars, guivars, extravars>>
    \/ LogEventNow /\ UNCHANGED <<alertvars, guivars, extravars>>
    \/ LogEventAt /\ UNCHANGED <<alertvars, guivars, extravars>>
    \/ EndSession /\ UNCHANGED <<alertvars, guivars, extravars>>

\* The session driven through start, log_event and end.
Spec == Init /\ [][Next]_vars

NextIO ==
    \/ Next
    \/ save /\ UNCHANGED <<alertvars, guivars, extravars>>
    \/ load /\ UNCHANGED <<alertvars, guivars, extravars>>

\* The same, with save() and Session.load() interleaved.
SpecIO == Init /\ [][NextIO]_vars

\* ------------------------------------------------- unfocused alert tracking

\* The loop classifies a frame at most DETECTION_FPS = 0.33 times a second: two
\* samples are more than three seconds apart.  Gaps between samples, in seconds.
SampleGaps == {4, 5, 60}

\* The kinds get_event_type hands to the loop.
SampleKinds ==
    {EVENT_PRESENT, EVENT_AWAY, EVENT_PHONE_SUSPECTED, EVENT_GADGET_SUSPECTED}

\* event_type in (config.EVENT_AWAY, config.EVENT_PHONE_SUSPECTED)
is_unfocused(event_type) == event_type \in {EVENT_AWAY, EVENT_PHONE_SUSPECTED}

\* _play_unfocused_alert: the badge of UNFOCUSED_ALERT_MESSAGES[alert_index]
\* (Python indexes from 0), an IndexError when there is no such message.
play_unfocused_alert(alert_index) ==
    IF alert_index + 1 \in DOMAIN UNFOCUSED_ALERT_MESSAGES
    THEN UNFOCUSED_ALERT_MESSAGES[alert_index + 1]
    ELSE "IndexError"

\* alert_tracking with the refocus branch leaving unfocused_start_time as it is.
alert_tracking_stale(event_type, current_time, ust, ap) ==
    LET started == IF ust = None THEN current_time ELSE ust
        played == IF ust = None THEN 0 ELSE ap
        due == /\ played < Len(UNFOCUSED_ALERT_TIMES)
               /\ current_time - started >= UNFOCUSED_ALERT_TIMES[played + 1]
    IN  IF is_unfocused(event_type)
        THEN [unfocused_start_time |-> started,
              alerts_played |-> IF due THEN played + 1 ELSE played,
              level |-> IF due THEN played ELSE None,
              alert_shown |-> IF due THEN play_unfocused_alert(played) ELSE NoAlert]
        ELSE [unfocused_start_time |-> ust,
              alerts_played |-> 0,
              level |-> None,
              alert_shown |-> NoAlert]

\* alert_tracking without the "alerts_played += 1" after an alert.
alert_tracking_repeat(event_type, current_time, ust, ap) ==
    LET started == IF ust = None THEN current_time ELSE ust
        played == IF ust = None THEN 0 ELSE ap
        due == /\ played < Len(UNFOCUSED_ALERT_TIMES)
               /\ current_time - started >= UNFOCUSED_ALERT_TIMES[played + 1]
    IN  IF is_unfocused(event_type)
        THEN [unfocused_start_time |-> started,
              alerts_played |-> played,
              level |-> IF due THEN played ELSE None,
              alert_shown |-> IF due THEN play_unfocused_alert(played) ELSE NoAlert]
        ELSE [unfocused_start_time |-> None,
              alerts_played |-> 0,
              level |-> None,
              alert_shown |-> NoAlert]

\* The alert branch of one loop iteration: from the sample's kind, the
\* time.time() of the iteration and the two tracking fields, the new fields,
\* the level of the alert played (None: none) and what playing it showed.
alert_tracking(event_type, current_time, ust, ap) ==
    LET started == IF ust = None THEN current_time ELSE ust
        played == IF ust = None THEN 0 ELSE ap
        due == /\ played < Len(UNFOCUSED_ALERT_TIMES)
               /\ current_time - started >= UNFOCUSED_ALERT_TIMES[played + 1]
    IN  IF is_unfocused(event_type)
        THEN [unfocused_start_time |-> started,
              alerts_played |-> IF due THEN played + 1 ELSE played,
              level |-> IF due THEN played ELSE None,
              alert_shown |-> IF due THEN play_unfocused_alert(played) ELSE NoAlert]
        ELSE [unfocused_start_time |-> None,
              alerts_played |-> 0,
              level |-> None,
              alert_shown |-> NoAlert]

\* One classified sample of kind event_type, gap seconds after the last one:
\* the loop reads time.time() and runs its alert branch.  The history follows
\* the samples themselves: a run is a maximal sequence of consecutive
\* unfocused samples.
Sample(gap, event_type) ==
    LET current_time == clock + gap
        r == alert_tracking(event_type, current_time,
                            unfocused_start_time, alerts_played)
        continues == is_unfocused(sample_kind)
    IN  /\ current_time <= MaxClock
        /\ clock' = current_time
        /\ unfocused_start_time' = r.unfocused_start_time
        /\ alerts_played' = r.alerts_played
        /\ alert_shown' = r.alert_shown
        /\ sample_kind' = event_type
        /\ run_start' = IF is_unfocused(event_type)
                        THEN IF continues THEN run_start ELSE current_time
                        ELSE None
        /\ run_len' = IF is_unfocused(event_type)
                      THEN IF continues THEN 2 ELSE 1
                      ELSE 0
        /\ run_fired' = IF is_unfocused(event_type)
                        THEN (IF continues THEN run_fired ELSE <<>>)
                             \o (IF r.level = None THEN <<>> ELSE <<r.level>>)
                        ELSE <<>>

allvars == <<vars, alertvars, guivars, extravars>>

NextAlert ==
    \E gap \in SampleGaps, event_type \in SampleKinds :
        Sample(gap, event_type) /\ UNCHANGED <<vars, guivars, extravars>>

SpecAlert == Init /\ [][NextAlert]_allvars

\* ------------------------------------------------ GUI session and threads

\* _update_detection_status: status_map.get(event_type, ("idle", "Unknown"))
status_of(event_type) ==
    CASE event_type = EVENT_PRESENT -> "focused"
      [] event_type = EVENT_AWAY -> "away"
      [] event_type = EVENT_PHONE_SUSPECTED -> "phone"
      [] OTHER -> "idle"

\* An access to a display value; locked: the accessing thread holds ui_lock.
Access(thread, field, op, locked) ==
    [thread |-> thread, field |-> field, op |-> op, locked |-> locked]

\* thread.is_alive()
is_alive == det_pc \notin {"none", "done"}

\* "if thread.is_alive(): thread.join(timeout=2.0)" is over: the thread was
\* not alive or has finished (timed_out = FALSE), or the two seconds have
\* passed with the thread still in its loop (timed_out = TRUE).
join_returns(timed_out) == timed_out = is_alive

\* _start_session (the API key is set; the first session of the application
\* run): a fresh Session(), the flags and the alert tracking reset,
\* _update_status("focused", "Booting Up..."), the detection thread started.
StartSession ==
    /\ ui_pc = "idle"
    /\ ~is_running
    /\ ~has_session
    /\ has_session' = TRUE
    /\ session_id' = generate_session_id(now)
    /\ session_started' = FALSE
    /\ session_start_time' = None
    /\ is_running' = TRUE
    /\ should_stop' = FALSE
    /\ unfocused_start_time' = None
    /\ alerts_played' = 0
    /\ current_status' = "focused"
    /\ last_access' = Access("ui", "current_status", "write", TRUE)
    /\ det_pc' = "top"
    /\ UNCHANGED <<now, start_time, end_time, events, current_state,
                   state_start_time, file, loaded, history>>
    /\ UNCHANGED <<clock, alert_shown, sample_kind, run_start, run_len, run_fired>>
    /\ UNCHANGED <<status_queue, ui_lock, ui_pc, det_kind, report, ui_error,
                   close_confirmed, ended_by_ui>>

\* _toggle_session -> _stop_session, up to the join: stop_time read,
\* should_stop set, is_running cleared.
StopRequest ==
    /\ ui_pc = "idle"
    /\ is_running
    /\ should_stop' = TRUE
    /\ is_running' = FALSE
    /\ ui_pc' = "stop_join"
    /\ UNCHANGED <<vars, alertvars>>
    /\ UNCHANGED <<has_session, session_started, session_start_time,
                   current_status, status_queue, ui_lock, det_pc, det_kind,
                   report, ui_error, close_confirmed, ended_by_ui, last_access>>

\* _stop_session after the join: "if self.session and self.session_started:
\* self.session.end(stop_time)".  Session.end takes no argument, so the call
\* raises TypeError before end's body runs and the handler is left there;
\* without a started session the handler goes on with
\* _update_status("idle", "Generating Reports...").
StopEnd ==
    /\ ui_pc = "stop_join"
    /\ \E timed_out \in BOOLEAN : join_returns(timed_out)
    /\ IF has_session /\ session_started
       THEN /\ ui_error' = "TypeError"
            /\ ended_by_ui' = TRUE
            /\ ui_pc' = "idle"
            /\ UNCHANGED <<current_status, last_access>>
       ELSE /\ current_status' = "idle"
            /\ last_access' = Access("ui", "current_status", "write", TRUE)
            /\ ui_pc' = "stop_report"
            /\ UNCHANGED <<ui_error, ended_by_ui>>
    /\ UNCHANGED <<vars, alertvars>>
    /\ UNCHANGED <<has_session, is_running, should_stop, session_started,
                   session_start_time, status_queue, ui_lock, det_pc, det_kind,
                   report, close_confirmed>>

\* _generate_report, called at the end of _stop_session: nothing to report
\* when the session never started, the PDF otherwise.
GenerateReport ==
    /\ ui_pc = "stop_report"
    /\ IF ~has_session \/ ~session_started
       THEN /\ report' = "no data"
            /\ current_status' = "idle"
            /\ last_access' = Access("ui", "current_status", "write", TRUE)
       ELSE /\ report' = "generated"
            /\ UNCHANGED <<current_status, last_access>>
    /\ ui_pc' = "idle"
    /\ UNCHANGED <<vars, alertvars>>
    /\ UNCHANGED <<has_session, is_running, should_stop, session_started,
                   session_start_time, status_queue, ui_lock, det_pc, det_kind,
                   ui_error, close_confirmed, ended_by_ui>>

\* _on_close with no session running: root.destroy().
CloseIdle ==
    /\ ui_pc = "idle"
    /\ ~is_running
    /\ ui_pc' = "exited"
    /\ UNCHANGED <<vars, alertvars>>
    /\ UNCHANGED <<has_session, is_running, should_stop, session_started,
                   session_start_time, current_status, status_queue, ui_lock,
                   det_pc, det_kind, report, ui_error, close_confirmed,
                   ended_by_ui, last_access>>

\* _on_close on a running session, the dialog answered yes, up to the join.
\* (Answered no, the handler returns and nothing changes.)
CloseRunning ==
    /\ ui_pc = "idle"
    /\ is_running
    /\ should_stop' = TRUE
    /\ is_running' = FALSE
    /\ close_confirmed' = TRUE
    /\ ui_pc' = "close_join"
    /\ UNCHANGED <<vars, alertvars>>
    /\ UNCHANGED <<has_session, session_started, session_start_time,
                   current_status, status_queue, ui_lock, det_pc, det_kind,
                   report, ui_error, ended_by_ui, last_access>>

\* _on_close after the join: "if self.session: self.session.end()".
CloseEnd ==
    /\ ui_pc = "close_join"
    /\ \E timed_out \in BOOLEAN : join_returns(timed_out)
    /\ IF has_session
       THEN /\ \E d \in Delays(Finalizes) : end(d)
            /\ ended_by_ui' = TRUE
       ELSE UNCHANGED <<vars, ended_by_ui>>
    /\ ui_pc' = "close_destroy"
    /\ UNCHANGED alertvars
    /\ UNCHANGED <<has_session, is_running, should_stop, session_started,
                   session_start_time, current_status, status_queue, ui_lock,
                   det_pc, det_kind, report, ui_error, close_confirmed,
                   last_access>>

\* _on_close: root.destroy(); mainloop returns and the process exits, its
\* daemon detection thread with it.
CloseDestroy ==
    /\ ui_pc = "close_destroy"
    /\ ui_pc' = "exited"
    /\ UNCHANGED <<vars, alertvars>>
    /\ UNCHANGED <<has_session, is_running, should_stop, session_started,
                   session_start_time, current_status, status_queue, ui_lock,
                   det_pc, det_kind, report, ui_error, close_confirmed,
                   ended_by_ui, last_access>>

\* _update_timer, every second: "if self.is_running and
\* self.session_start_time" reads session_start_time when is_running holds.
UpdateTimer ==
    /\ ui_pc = "idle"
    /\ is_running
    /\ last_access' = Access("ui", "session_start_time", "read", ui_lock = "ui")
    /\ UNCHANGED <<vars, alertvars>>
    /\ UNCHANGED <<has_session, is_running, should_stop, session_started,
                   session_start_time, current_status, status_queue, ui_lock,
                   ui_pc, det_pc, det_kind, report, ui_error, close_confirmed,
                   ended_by_ui>>

\* A scheduled _update_status enters "with self.ui_lock".
StatusAcquire ==
    /\ ui_pc = "idle"
    /\ status_queue # <<>>
    /\ ui_lock = "free"
    /\ ui_lock' = "ui"
    /\ ui_pc' = "status"
    /\ UNCHANGED <<vars, alertvars>>
    /\ UNCHANGED <<has_session, is_running, should_stop, session_started,
                   session_start_time, current_status, status_queue,
                   det_pc, det_kind, report, ui_error, close_confirmed,
                   ended_by_ui, last_access>>

\* _update_status inside the lock: current_status written, the lock released.
StatusWrite ==
    /\ ui_pc = "status"
    /\ current_status' = Head(status_queue)
    /\ status_queue' = Tail(status_queue)
    /\ last_access' = Access("ui", "current_status", "write", ui_lock = "ui")
    /\ ui_lock' = "free"
    /\ ui_pc' = "idle"
    /\ UNCHANGED <<vars, alertvars>>
    /\ UNCHANGED <<has_session, is_running, should_stop, session_started,
                   session_start_time, det_pc, det_kind, report, ui_error,
                   close_confirmed, ended_by_ui>>

\* The detection thread runs as long as the process does.
det_runs == ui_pc # "exited"

\* _detection_loop, top of an iteration: "if self.should_stop.is_set(): break".
DetectTop ==
    /\ det_runs
    /\ det_pc = "top"
    /\ det_pc' = IF should_stop THEN "done" ELSE "detecting"
    /\ UNCHANGED <<vars, alertvars>>
    /\ UNCHANGED <<has_session, is_running, should_stop, session_started,
                   session_start_time, current_status, status_queue, ui_lock,
                   ui_pc, det_kind, report, ui_error, close_confirmed,
                   ended_by_ui, last_access>>

\* detector.get_detection_state(frame) returns (the call takes seconds); the
\* kind get_event_type will make of it is fixed by what it returns.
DetectClassify ==
    /\ det_runs
    /\ det_pc = "detecting"
    /\ \E event_type \in SampleKinds : det_kind' = event_type
    /\ det_pc' = "recheck"
    /\ UNCHANGED <<vars, alertvars>>
    /\ UNCHANGED <<has_session, is_running, should_stop, session_started,
                   session_start_time, current_status, status_queue, ui_lock,
                   ui_pc, report, ui_error, close_confirmed, ended_by_ui,
                   last_access>>

\* The re-check of should_stop after the detection call.
DetectRecheck ==
    /\ det_runs
    /\ det_pc = "recheck"
    /\ det_pc' = IF should_stop THEN "done" ELSE "start"
    /\ UNCHANGED <<vars, alertvars>>
    /\ UNCHANGED <<has_session, is_running, should_stop, session_started,
                   session_start_time, current_status, status_queue, ui_lock,
                   ui_pc, det_kind, report, ui_error, close_confirmed,
                   ended_by_ui, last_access>>

\* "if not self.session_started": session.start(), session_start_time =
\* datetime.now(), session_started = True.
DetectStart ==
    /\ det_runs
    /\ det_pc = "start"
    /\ IF ~session_started
       THEN /\ start
            /\ session_start_time' = now
            /\ session_started' = TRUE
            /\ last_access' = Access("detection", "session_start_time", "write",
                                     ui_lock = "detection")
       ELSE UNCHANGED <<vars, session_start_time, session_started, last_access>>
    /\ det_pc' = "alert"
    /\ UNCHANGED alertvars
    /\ UNCHANGED <<has_session, is_running, should_stop, current_status,
                   status_queue, ui_lock, ui_pc, det_kind, report, ui_error,
                   close_confirmed, ended_by_ui>>

\* The loop at its slowest cadence.
LongestGap == CHOOSE gap \in SampleGaps : \A other \in SampleGaps : other <= gap

\* The alert branch of the iteration, on the kind just classified.
DetectAlert ==
    /\ det_runs
    /\ det_pc = "alert"
    /\ Sample(LongestGap, det_kind)
    /\ det_pc' = "log"
    /\ UNCHANGED vars
    /\ UNCHANGED <<has_session, is_running, should_stop, session_started,
                   session_start_time, current_status, status_queue, ui_lock,
                   ui_pc, det_kind, report, ui_error, close_confirmed,
                   ended_by_ui, last_access>>

\* "if self.session: self.session.log_event(event_type)", then
\* _update_detection_status schedules the status update on the UI thread.
DetectLog ==
    /\ det_runs
    /\ det_pc = "log"
    /\ IF has_session
       THEN \E d \in Delays(det_kind # current_state /\ Finalizes) :
                log_event(det_kind, None, d)
       ELSE UNCHANGED vars
    /\ status_queue' = Append(status_queue, status_of(det_kind))
    /\ det_pc' = "top"
    /\ UNCHANGED alertvars
    /\ UNCHANGED <<has_session, is_running, should_stop, session_started,
                   session_start_time, current_status, ui_lock, ui_pc,
                   det_kind, report, ui_error, close_confirmed, ended_by_ui,
                   last_access>>

NextGui ==
    \/ Tick /\ UNCHANGED <<alertvars, guivars, extravars>>
    \/ StartSession /\ UNCHANGED extravars
    \/ StopRequest /\ UNCHANGED extravars
    \/ StopEnd /\ UNCHANGED extravars
    \/ GenerateReport /\ UNCHANGED extravars
    \/ CloseIdle /\ UNCHANGED extravars
    \/ CloseRunning /\ UNCHANGED extravars
    \/ CloseEnd /\ UNCHANGED extravars
    \/ CloseDestroy /\ UNCHANGED extravars
    \/ UpdateTimer /\ UNCHANGED extravars
    \/ StatusAcquire /\ UNCHANGED extravars
    \/ StatusWrite /\ UNCHANGED extravars
    \/ DetectTop /\ UNCHANGED extravars
    \/ DetectClassify /\ UNCHANGED extravars
    \/ DetectRecheck /\ UNCHANGED extravars
    \/ DetectStart /\ UNCHANGED extravars
    \/ DetectAlert /\ UNCHANGED extravars
    \/ DetectLog /\ UNCHANGED extravars

\* The GUI of one application run: the UI thread's handlers and the
\* detection thread, interleaved statement group by statement group.
SpecGui == Init /\ [][NextGui]_allvars

\* ------------------------------------------------------ alert popups

\* How long a classification call takes, in seconds: a fast and a slow call.
DetectionLatencies == {1, 4}

\* One iteration of the loop with its effects on the Tk timer queue.  The
\* iteration reads time.time() gap seconds after the previous read and not
\* before the previous iteration is over; its classification returns latency
\* seconds later, and only then the alert is played (its popup scheduled
\* 1500 ms ahead) or, on refocus, the dismiss is scheduled (0 ms ahead).
\* Timers are kept in half seconds.  The UI thread is responsive: what was
\* due when the iteration began has run.
PopupSample(gap, latency, event_type) ==
    LET current_time == clock + gap
        finished == current_time + latency
    IN  /\ current_time >= done_at
        /\ dismiss_timers = <<>>
        /\ \A i \in DOMAIN popup_timers : popup_timers[i].due > 2 * current_time
        /\ active_popup = NoPopup \/ active_popup.until > 2 * current_time
        /\ Sample(gap, event_type)
        /\ done_at' = finished
        /\ popup_timers' =
              IF alert_shown' # NoAlert
              THEN Append(popup_timers,
                          [badge |-> alert_shown', due |-> 2 * finished + PopupDelay])
              ELSE popup_timers
        /\ dismiss_timers' =
              IF ~is_unfocused(event_type) /\ unfocused_start_time # None
              THEN Append(dismiss_timers, 2 * finished)
              ELSE dismiss_timers
        /\ UNCHANGED <<active_popup, popup_windows>>

\* The timer of root.after(1500, _show_alert_popup) fires (no timer due
\* earlier is pending): NotificationPopup(...) dismisses the active popup, if
\* any, opens its window, starts its auto-dismiss timer and becomes the
\* active popup.
ShowPopup ==
    /\ popup_timers # <<>>
    /\ LET timer == Head(popup_timers)
       IN  /\ \A i \in DOMAIN dismiss_timers : dismiss_timers[i] > timer.due
           /\ active_popup = NoPopup \/ active_popup.until > timer.due
           /\ popup_windows' = IF active_popup # NoPopup
                               THEN (popup_windows - 1) + 1
                               ELSE popup_windows + 1
           /\ active_popup' = [badge |-> timer.badge,
                               until |-> timer.due + 2 * ALERT_POPUP_DURATION]
    /\ popup_timers' = Tail(popup_timers)
    /\ UNCHANGED <<done_at, dismiss_timers>>
    /\ UNCHANGED <<vars, alertvars, guivars, lockvars, lmvars, restartvars>>

\* The timer of root.after(0, _dismiss_alert_popup) fires: the active popup,
\* if there is one, is dismissed.
DismissPopup ==
    /\ dismiss_timers # <<>>
    /\ LET due == Head(dismiss_timers)
       IN  /\ \A i \in DOMAIN popup_timers : popup_timers[i].due > due
           /\ active_popup = NoPopup \/ active_popup.until > due
    /\ IF active_popup # NoPopup
       THEN /\ popup_windows' = popup_windows - 1
            /\ active_popup' = NoPopup
       ELSE UNCHANGED <<active_popup, popup_windows>>
    /\ dismiss_timers' = Tail(dismiss_timers)
    /\ UNCHANGED <<done_at, popup_timers>>
    /\ UNCHANGED <<vars, alertvars, guivars, lockvars, lmvars, restartvars>>

\* The auto-dismiss timer of the active popup fires after
\* ALERT_POPUP_DURATION seconds: NotificationPopup.dismiss.
AutoDismiss ==
    /\ active_popup # NoPopup
    /\ \A i \in DOMAIN popup_timers : popup_timers[i].due > active_popup.until
    /\ \A i \in DOMAIN dismiss_timers : dismiss_timers[i] > active_popup.until
    /\ popup_windows' = popup_windows - 1
    /\ active_popup' = NoPopup
    /\ UNCHANGED <<done_at, popup_timers, dismiss_timers>>
    /\ UNCHANGED <<vars, alertvars, guivars, lockvars, lmvars, restartvars>>

\* A focused and an unfocused kind are enough to drive the popups.
PopupKinds == {EVENT_PRESENT, EVENT_AWAY}

NextPopup ==
    \/ \E gap \in SampleGaps, latency \in DetectionLatencies,
          event_type \in PopupKinds :
            PopupSample(gap, latency, event_type)
            /\ UNCHANGED <<vars, guivars, lockvars, lmvars, restartvars>>
    \/ ShowPopup
    \/ DismissPopup
    \/ AutoDismiss

\* The detection loop's samples and the popups the UI thread shows for them.
SpecPopup == Init /\ [][NextPopup]_allvars

\* ----------------------------------------------------------- instance lock

\* acquire(), first half: open(self.lock_file, 'w') opens the file the path
\* names, creating it when the path does not exist.
AcquireOpen(p) ==
    /\ lock_pc[p] = "idle"
    /\ lock_handle[p] = 0
    /\ IF path_inode = 0
       THEN /\ inodes_made < MaxInodes
            /\ inodes_made' = inodes_made + 1
            /\ path_inode' = inodes_made + 1
       ELSE UNCHANGED <<inodes_made, path_inode>>
    /\ lock_handle' = [lock_handle EXCEPT ![p] = path_inode']
    /\ lock_pc' = [lock_pc EXCEPT ![p] = "opened"]
    /\ UNCHANGED <<flock_owner, lock_acquired, acquire_result>>

\* acquire(), second half: fcntl.flock(LOCK_EX | LOCK_NB) on the handle.  It
\* succeeds when no other handle holds the flock of that file (True is
\* returned); otherwise the handle is closed and False is returned.
AcquireFlock(p) ==
    /\ lock_pc[p] = "opened"
    /\ IF flock_owner[lock_handle[p]] = 0
       THEN /\ flock_owner' = [flock_owner EXCEPT ![lock_handle[p]] = p]
            /\ lock_acquired' = [lock_acquired EXCEPT ![p] = TRUE]
            /\ acquire_result' = [acquire_result EXCEPT ![p] = "True"]
            /\ UNCHANGED lock_handle
       ELSE /\ lock_handle' = [lock_handle EXCEPT ![p] = 0]
            /\ acquire_result' = [acquire_result EXCEPT ![p] = "False"]
            /\ UNCHANGED <<flock_owner, lock_acquired>>
    /\ lock_pc' = [lock_pc EXCEPT ![p] = "idle"]
    /\ UNCHANGED <<path_inode, inodes_made>>

\* release(), first half: the handle is closed, which drops its flock.
ReleaseClose(p) ==
    /\ lock_pc[p] = "idle"
    /\ lock_handle[p] # 0
    /\ flock_owner' = [flock_owner EXCEPT ![lock_handle[p]] = 0]
    /\ lock_handle' = [lock_handle EXCEPT ![p] = 0]
    /\ lock_acquired' = [lock_acquired EXCEPT ![p] = FALSE]
    /\ acquire_result' = [acquire_result EXCEPT ![p] = "none"]
    /\ lock_pc' = [lock_pc EXCEPT ![p] = "closed"]
    /\ UNCHANGED <<path_inode, inodes_made>>

\* release(), second half: "if self.lock_file.exists(): self.lock_file.unlink()".
ReleaseUnlink(p) ==
    /\ lock_pc[p] = "closed"
    /\ path_inode' = 0
    /\ lock_pc' = [lock_pc EXCEPT ![p] = "idle"]
    /\ UNCHANGED <<inodes_made, flock_owner, lock_handle, lock_acquired,
                   acquire_result>>

\* What the instance lock leaves alone.
lockframe == <<vars, alertvars, guivars, popupvars, lmvars, restartvars>>

NextLock ==
    \/ \E p \in Procs : AcquireOpen(p) /\ UNCHANGED lockframe
    \/ \E p \in Procs : AcquireFlock(p) /\ UNCHANGED lockframe
    \/ \E p \in Procs : ReleaseClose(p) /\ UNCHANGED lockframe
    \/ \E p \in Procs : ReleaseUnlink(p) /\ UNCHANGED lockframe

\* Processes acquiring and releasing the instance lock (Unix branch).
SpecLock == Init /\ [][NextLock]_allvars

\* ------------------------------------------------- license manager singleton

\* A get_license_manager whose first test leads straight to the construction,
\* without the lock and the second test.
GetCheck_unlocked(t) ==
    /\ lm_pc[t] = "idle"
    /\ lm_pc' = [lm_pc EXCEPT ![t] = IF lm_instance = 0 THEN "construct" ELSE "return"]
    /\ UNCHANGED <<lm_instance, lm_lock, lm_result, lm_made, lm_resets>>

\* get_license_manager, the first "if _license_manager_instance is None".
GetCheck(t) ==
    /\ lm_pc[t] = "idle"
    /\ lm_pc' = [lm_pc EXCEPT ![t] = IF lm_instance = 0 THEN "lock" ELSE "return"]
    /\ UNCHANGED <<lm_instance, lm_lock, lm_result, lm_made, lm_resets>>

\* "with _license_manager_lock": the thread waits until the lock is free.
GetLock(t) ==
    /\ lm_pc[t] = "lock"
    /\ lm_lock = 0
    /\ lm_lock' = t
    /\ lm_pc' = [lm_pc EXCEPT ![t] = "check2"]
    /\ UNCHANGED <<lm_instance, lm_result, lm_made, lm_resets>>

\* The second test, inside the lock.
GetCheck2(t) ==
    /\ lm_pc[t] = "check2"
    /\ lm_pc' = [lm_pc EXCEPT ![t] = IF lm_instance = 0 THEN "construct" ELSE "unlock"]
    /\ UNCHANGED <<lm_instance, lm_lock, lm_result, lm_made, lm_resets>>

\* _license_manager_instance = LicenseManager(license_file=...)
GetConstruct(t) ==
    /\ lm_pc[t] = "construct"
    /\ lm_made' = lm_made + 1
    /\ lm_instance' = lm_made + 1
    /\ lm_pc' = [lm_pc EXCEPT ![t] = "unlock"]
    /\ UNCHANGED <<lm_lock, lm_result, lm_resets>>

\* The with block is left: the lock is released if the thread holds it.
GetUnlock(t) ==
    /\ lm_pc[t] = "unlock"
    /\ lm_lock' = IF lm_lock = t THEN 0 ELSE lm_lock
    /\ lm_pc' = [lm_pc EXCEPT ![t] = "return"]
    /\ UNCHANGED <<lm_instance, lm_result, lm_made, lm_resets>>

\* "return _license_manager_instance": the global is read again.
GetReturn(t) ==
    /\ lm_pc[t] = "return"
    /\ lm_result' = [lm_result EXCEPT ![t] = lm_instance]
    /\ lm_pc' = [lm_pc EXCEPT ![t] = "idle"]
    /\ UNCHANGED <<lm_instance, lm_lock, lm_made, lm_resets>>

\* reset_license_manager(), called by a thread that is in no other call.
ResetManager(t) ==
    /\ lm_pc[t] = "idle"
    /\ lm_resets < MaxResets
    /\ lm_resets' = lm_resets + 1
    /\ lm_instance' = 0
    /\ UNCHANGED <<lm_lock, lm_pc, lm_result, lm_made>>

\* What the license manager leaves alone.
lmframe == <<vars, alertvars, guivars, popupvars, lockvars, restartvars>>

NextLicense ==
    \/ \E t \in Threads : GetCheck(t) /\ UNCHANGED lmframe
    \/ \E t \in Threads : GetLock(t) /\ UNCHANGED lmframe
    \/ \E t \in Threads : GetCheck2(t) /\ UNCHANGED lmframe
    \/ \E t \in Threads : GetConstruct(t) /\ UNCHANGED lmframe
    \/ \E t \in Threads : GetUnlock(t) /\ UNCHANGED lmframe
    \/ \E t \in Threads : GetReturn(t) /\ UNCHANGED lmframe
    \/ \E t \in Threads : ResetManager(t) /\ UNCHANGED lmframe

\* Threads calling get_license_manager (and reset_license_manager).
SpecLicense == Init /\ [][NextLicense]_allvars

\* ------------------------------------------- sessions after the first one

\* The rest of the application, which the session handlers leave alone.
restartframe == <<popupvars, lockvars, lmvars>>

\* The first _start_session of the run, with the button it configures.
FirstStart ==
    /\ StartSession
    /\ button_text' = "Stop Session"
    /\ UNCHANGED <<old_pc, old_kind, error_pending>>

\* _toggle_session -> _start_session with a session already there (is_running
\* is False): self.session = Session(), the flags and the alert tracking
\* reset, should_stop cleared, the button set to "Stop Session", a new
\* detection thread started.  The thread of the session before is left where
\* it is: nothing but the join in _stop_session ever waited for it.
RestartSession ==
    /\ ui_pc = "idle"
    /\ ~is_running
    /\ has_session
    /\ old_pc = "none"
    /\ session_id' = generate_session_id(now)
    /\ start_time' = None
    /\ end_time' = None
    /\ events' = <<>>
    /\ current_state' = NoState
    /\ state_start_time' = None
    /\ last_op' = "init"
    /\ nstart' = 0
    /\ nend' = 0
    /\ nchanges' = 0
    /\ opened' = <<>>
    /\ phase' = "new"
    /\ session_started' = FALSE
    /\ session_start_time' = None
    /\ is_running' = TRUE
    /\ should_stop' = FALSE
    /\ unfocused_start_time' = None
    /\ alerts_played' = 0
    /\ current_status' = "focused"
    /\ last_access' = Access("ui", "current_status", "write", TRUE)
    /\ ended_by_ui' = FALSE
    /\ old_pc' = det_pc
    /\ old_kind' = det_kind
    /\ det_pc' = "top"
    /\ det_kind' = NoState
    /\ button_text' = "Stop Session"
    /\ UNCHANGED <<now, file, loaded, ncalls, saved>>
    /\ UNCHANGED <<clock, alert_shown, sample_kind, run_start, run_len, run_fired>>
    /\ UNCHANGED <<has_session, status_queue, ui_lock, ui_pc, report, ui_error,
                   close_confirmed, error_pending>>

\* _stop_session after the join, with the button: "Generating..." once the
\* handler gets past session.end.
StopEndButton ==
    /\ StopEnd
    /\ button_text' = IF has_session /\ session_started
                      THEN button_text ELSE "Generating..."
    /\ UNCHANGED <<old_pc, old_kind, error_pending>>

\* _generate_report, with the _reset_button_state both of its ways out call.
GenerateReportButton ==
    /\ GenerateReport
    /\ button_text' = "Start Session"
    /\ UNCHANGED <<old_pc, old_kind, error_pending>>

\* "with CameraCapture() as camera: if not camera.is_opened:
\* self.root.after(0, lambda: self._show_camera_error()); return", before
\* the thread's first iteration.
CameraFail ==
    /\ det_pc = "top"
    /\ det_kind = NoState
    /\ error_pending = "none"
    /\ det_pc' = "done"
    /\ error_pending' = "camera"
    /\ UNCHANGED <<vars, alertvars>>
    /\ UNCHANGED <<has_session, is_running, should_stop, session_started,
                   session_start_time, current_status, status_queue, ui_lock,
                   ui_pc, det_kind, report, ui_error, close_confirmed,
                   ended_by_ui, last_access>>
    /\ UNCHANGED <<old_pc, old_kind, button_text>>

\* "except Exception as e: ... self.root.after(0, lambda:
\* self._show_detection_error(str(e)))": the detection call raises and the
\* thread leaves the loop.
DetectFail ==
    /\ det_pc = "detecting"
    /\ error_pending = "none"
    /\ det_pc' = "done"
    /\ error_pending' = "detection"
    /\ UNCHANGED <<vars, alertvars>>
    /\ UNCHANGED <<has_session, is_running, should_stop, session_started,
                   session_start_time, current_status, status_queue, ui_lock,
                   ui_pc, det_kind, report, ui_error, close_confirmed,
                   ended_by_ui, last_access>>
    /\ UNCHANGED <<old_pc, old_kind, button_text>>

\* _show_camera_error / _show_detection_error on the UI thread: the message
\* box, _reset_button_state(), _update_status("idle", "Ready to Start").
ShowError ==
    /\ ui_pc = "idle"
    /\ error_pending # "none"
    /\ error_pending' = "none"
    /\ button_text' = "Start Session"
    /\ current_status' = "idle"
    /\ last_access' = Access("ui", "current_status", "write", TRUE)
    /\ UNCHANGED <<vars, alertvars>>
    /\ UNCHANGED <<has_session, is_running, should_stop, session_started,
                   session_start_time, status_queue, ui_lock, ui_pc, det_pc,
                   det_kind, report, ui_error, close_confirmed, ended_by_ui>>
    /\ UNCHANGED <<old_pc, old_kind>>

\* The detection thread of the session before, in the same _detection_loop:
\* top of an iteration.
OldDetectTop ==
    /\ old_pc = "top"
    /\ old_pc' = IF should_stop THEN "done" ELSE "detecting"
    /\ UNCHANGED <<vars, alertvars, guivars>>
    /\ UNCHANGED <<old_kind, button_text, error_pending>>

\* Its detection call returns.
OldDetectClassify ==
    /\ old_pc = "detecting"
    /\ \E event_type \in SampleKinds : old_kind' = event_type
    /\ old_pc' = "recheck"
    /\ UNCHANGED <<vars, alertvars, guivars>>
    /\ UNCHANGED <<button_text, error_pending>>

\* Its re-check of should_stop, the Event _start_session has cleared.
OldDetectRecheck ==
    /\ old_pc = "recheck"
    /\ old_pc' = IF should_stop THEN "done" ELSE "start"
    /\ UNCHANGED <<vars, alertvars, guivars>>
    /\ UNCHANGED <<old_kind, button_text, error_pending>>

\* Its "if not self.session_started": self.session is the new Session.
OldDetectStart ==
    /\ old_pc = "start"
    /\ IF ~session_started
       THEN /\ start
            /\ session_start_time' = now
            /\ session_started' = TRUE
            /\ last_access' = Access("detection", "session_start_time", "write",
                                     ui_lock = "detection")
       ELSE UNCHANGED <<vars, session_start_time, session_started, last_access>>
    /\ old_pc' = "alert"
    /\ UNCHANGED alertvars
    /\ UNCHANGED <<has_session, is_running, should_stop, current_status,
                   status_queue, ui_lock, ui_pc, det_pc, det_kind, report,
                   ui_error, close_confirmed, ended_by_ui>>
    /\ UNCHANGED <<old_kind, button_text, error_pending>>

\* Its alert branch, on the alert tracking _start_session has reset.
OldDetectAlert ==
    /\ old_pc = "alert"
    /\ Sample(LongestGap, old_kind)
    /\ old_pc' = "log"
    /\ UNCHANGED <<vars, guivars>>
    /\ UNCHANGED <<old_kind, button_text, error_pending>>

\* Its "if self.session: self.session.log_event(event_type)".
OldDetectLog ==
    /\ old_pc = "log"
    /\ \E d \in Delays(old_kind # current_state /\ Finalizes) :
           log_event(old_kind, None, d)
    /\ status_queue' = Append(status_queue, status_of(old_kind))
    /\ old_pc' = "top"
    /\ UNCHANGED alertvars
    /\ UNCHANGED <<has_session, is_running, should_stop, session_started,
                   session_start_time, current_status, ui_lock, ui_pc, det_pc,
                   det_kind, report, ui_error, close_confirmed, ended_by_ui,
                   last_access>>
    /\ UNCHANGED <<old_kind, button_text, error_pending>>

NextRestart ==
    \/ FirstStart /\ UNCHANGED restartframe
    \/ RestartSession /\ UNCHANGED restartframe
    \/ StopRequest /\ UNCHANGED extravars
    \/ StopEndButton /\ UNCHANGED restartframe
    \/ GenerateReportButton /\ UNCHANGED restartframe
    \/ CameraFail /\ UNCHANGED restartframe
    \/ DetectFail /\ UNCHANGED restartframe
    \/ ShowError /\ UNCHANGED restartframe
    \/ DetectTop /\ UNCHANGED extravars
    \/ DetectClassify /\ UNCHANGED extravars
    \/ DetectRecheck /\ UNCHANGED extravars
    \/ DetectStart /\ UNCHANGED extravars
    \/ DetectAlert /\ UNCHANGED extravars
    \/ DetectLog /\ UNCHANGED extravars
    \/ OldDetectTop /\ UNCHANGED restartframe
    \/ OldDetectClassify /\ UNCHANGED restartframe
    \/ OldDetectRecheck /\ UNCHANGED restartframe
    \/ OldDetectStart /\ UNCHANGED restartframe
    \/ OldDetectAlert /\ UNCHANGED restartframe
    \/ OldDetectLog /\ UNCHANGED restartframe

\* The start/stop button over two sessions of one application run: the UI
\* thread's handlers, the detection thread of the session and the thread of
\* the session before it.  The steps follow each other closely: the clock
\* moves inside log_event only.
SpecRestart == Init /\ [][NextRestart]_allvars

\* ---------------------------------------------------------------- claims

fields == <<events, current_state, state_start_time, start_time, end_time>>

\* Every timestamp argument of log_event, None (omitted) included.
TimestampArgs == {None} \cup (0..MaxTime)

EventTypes(evs) == [i \in 1..Len(evs) |-> evs[i].type]

\* C1: on a started session, log_event(kind) with kind equal to
\* current_state changes none of events, current_state, state_start_time,
\* start_time and end_time, at every such call (so however often repeated).
C1_SameKindIsNoOp ==
    [][\A k \in Kinds, t \in TimestampArgs, d \in 0..1 :
          (start_time # None /\ k = current_state /\ log_event(k, t, d))
              => UNCHANGED fields]_vars

\* C1 witness: start() followed by two log_event(PRESENT) calls, nothing recorded.
C1_Witness ==
    /\ phase = "started" /\ last_op = "log_event"
    /\ ncalls = 3 /\ nchanges = 0
    /\ current_state = EVENT_PRESENT /\ events = <<>>

\* C2: after start(), for any sequence of log_event calls, len(events) is
\* the number of calls whose kind differed from current_state at the call.
C2_EventsCountKindChanges ==
    phase = "started" => Len(events) = nchanges

\* C3: on a started session, log_event(kind, timestamp) with kind different
\* from current_state appends exactly one event {old current_state, old
\* state_start_time, timestamp, timestamp - old state_start_time} and sets
\* current_state = kind, state_start_time = timestamp.
C3_LogEventClosesAtTimestamp ==
    [][\A k \in Kinds, t \in 0..MaxTime :
          (phase = "started" /\ k # current_state /\ log_event(k, t, 0))
              => /\ events' = Append(events,
                                     [type |-> current_state,
                                      start |-> isoformat(state_start_time),
                                      end |-> isoformat(t),
                                      duration_seconds |-> t - state_start_time])
                 /\ current_state' = k
                 /\ state_start_time' = t]_vars

\* C4: after start(), any log_event calls and then end(), the last entry of
\* events has the kind that was current at end() and its end equals end_time.
C4_LastEventEndsAtEndTime ==
    phase = "ended" =>
        /\ Len(events) > 0
        /\ events[Len(events)].type = current_state
        /\ events[Len(events)].end = isoformat(end_time)

\* C5: after start(), log_event calls with k kind changes and one end(),
\* events has exactly k+1 entries, one per interval opened, in the order
\* opened, starting with PRESENT.
C5_EveryIntervalFinalizedOnce ==
    phase = "ended" =>
        /\ Len(events) = nchanges + 1
        /\ EventTypes(events) = opened
        /\ events[1].type = EVENT_PRESENT

\* C6: after end() has been called, start() and log_event() leave events,
\* current_state, state_start_time, start_time and end_time as end() left them.
C6_ReadOnlyAfterEnd ==
    [][(phase = "ended" /\ last_op' \in {"start", "log_event"} /\ ncalls' = ncalls + 1)
          => UNCHANGED fields]_vars

\* C7: log_event or end on a session on which start() was never called
\* changes no field of the session.
C7_NoOpBeforeStart ==
    [][(nstart = 0 /\ last_op' \in {"log_event", "end"} /\ ncalls' = ncalls + 1)
          => UNCHANGED fields]_vars

\* C8: as long as start() has never been called, get_duration() returns 0
\* and events is empty, whatever log_event and end calls have been made.
C8_NeverStartedIsEmpty ==
    nstart = 0 => (get_duration = 0 /\ events = <<>>)

\* C9: on a started session get_duration() is now - start_time while end()
\* has not been called and end_time - start_time once it has; after end()
\* the value does not change when the clock advances.
C9_DurationFrozenByEnd ==
    /\ [](nstart > 0 =>
            get_duration = (IF nend = 0 THEN now ELSE end_time) - start_time)
    /\ [][(nstart > 0 /\ nend > 0 /\ now' # now /\ ncalls' = ncalls)
            => get_duration' = get_duration]_vars

\* C9 witness: a started session was ended and the clock has advanced since.
C9_Witness ==
    /\ phase = "ended" /\ last_op = "tick"
    /\ now > end_time /\ end_time > start_time
    /\ get_duration = end_time - start_time

\* C10: Session.load applied to the file written by save() yields a session
\* with the same session_id, start_time, end_time and events.
C10_SaveLoadRoundTrip ==
    last_op = "load" =>
        /\ loaded.session_id = saved.session_id
        /\ loaded.start_time = saved.start_time
        /\ loaded.end_time = saved.end_time
        /\ loaded.events = saved.events

\* C10 witness: an ended session with a recorded interval and a start time
\* that is not a whole second was saved and loaded.
C10_Witness ==
    /\ last_op = "load"
    /\ loaded.start_time # None /\ loaded.start_time % TicksPerSecond # 0
    /\ loaded.end_time # None
    /\ Len(loaded.events) > 0

\* C11: start() on a freshly created session sets start_time to the current
\* time, current_state to PRESENT and state_start_time to start_time, and
\* leaves events empty and end_time unset.
C11_StartOpensPresent ==
    [][(phase = "new" /\ last_op' = "start" /\ ncalls' = ncalls + 1)
          => /\ start_time' = now
             /\ current_state' = EVENT_PRESENT
             /\ state_start_time' = start_time'
             /\ events' = <<>>
             /\ end_time' = None]_vars

\* C11 witness: start() has just run on a fresh session, at a clock value
\* other than the one the session was created at.
C11_Witness ==
    /\ phase = "started" /\ last_op = "start" /\ nstart = 1
    /\ now > 0 /\ start_time = now /\ state_start_time = now

\* C12: events is append-only: every step of start, log_event, end and
\* save keeps the entries already in events, in place, and only adds at
\* the tail.
C12_EventsAppendOnly ==
    [][/\ Len(events') >= Len(events)
       /\ SubSeq(events', 1, Len(events)) = events]_vars

\* C12 witness: an entry was appended behind an existing one, and the
\* session was saved afterwards.
C12_Witness ==
    /\ Len(events) >= 2
    /\ last_op = "save"

\* C13: with no session_id supplied the generated id is non-empty, starts
\* with "BrainDock" and holds a day name and a time, separated by spaces;
\* a supplied id is kept verbatim.
C13_GeneratedIdIsBrainDock ==
    \/ session_id \in SuppliedIds \ {<<>>}
    \/ /\ Len(session_id) >= 3
       /\ session_id[1] = "BrainDock"

\* C14: over a run of consecutive samples whose kind is not PRESENT the
\* unfocused timer keeps running (unfocused_start_time set and unchanged from
\* the second sample of the run on, alerts_played never lowered), whichever
\* non-PRESENT kind the samples carry, and the timer is reset
\* (unfocused_start_time cleared, alerts_played = 0) exactly on a sample whose
\* kind is PRESENT.
C14_TimerRunsOverNonPresent ==
    [][clock' # clock
          => /\ sample_kind' = EVENT_PRESENT
                  => /\ unfocused_start_time' = None
                     /\ alerts_played' = 0
             /\ sample_kind' # EVENT_PRESENT
                  => /\ unfocused_start_time' # None
                     /\ sample_kind \notin {EVENT_PRESENT, NoState}
                          => /\ unfocused_start_time' = unfocused_start_time
                             /\ alerts_played' >= alerts_played]_allvars

\* C15: alert number k (k = 0, 1, 2) is played at a sample only if the run of
\* unfocused samples the sample belongs to has by then lasted at least
\* UNFOCUSED_ALERT_TIMES[k] seconds, and never at the first sample of a run.
C15_AlertOnlyAfterThreshold ==
    [][\A k \in 0 .. Len(UNFOCUSED_ALERT_TIMES) :
          (clock' # clock /\ alert_shown' # NoAlert /\ alerts_played' = k + 1)
             => /\ k + 1 \in DOMAIN UNFOCUSED_ALERT_TIMES
                /\ run_start' # None
                /\ clock' - run_start' >= UNFOCUSED_ALERT_TIMES[k + 1]
                /\ run_len' >= 2
                /\ run_fired'[Len(run_fired')] = k]_allvars

\* A run that started after a focused sample and has had its 20 s alert.
C15_Witness ==
    /\ alert_shown = UNFOCUSED_ALERT_MESSAGES[1]
    /\ alerts_played = 1
    /\ run_start > 4
    /\ clock - run_start >= UNFOCUSED_ALERT_TIMES[1]
    /\ run_len = 2

DetectionStep == det_pc # "none" /\ det_pc' # det_pc

\* A start() or log_event() call on the session.
SessionLogged == ncalls' = ncalls + 1 /\ last_op' \in {"start", "log_event"}

\* C17: the fields of the Session of a GUI session (events, current_state,
\* state_start_time, start_time, end_time) change only in steps of the
\* detection-loop thread; no step of the UI thread changes any of them.
C17_OnlyDetectionThreadMutates ==
    [][fields' # fields => DetectionStep]_allvars

\* C18: every read or write of a display value shared by the two threads
\* (session_start_time, current_status) is made by a thread that holds
\* ui_lock at that moment.
C18_DisplayValuesUnderLock ==
    last_access.locked

\* C19: once a UI handler has set should_stop and made its session.end call,
\* the detection thread makes no start() or log_event() call on the session,
\* whether the join returned because the thread finished or because it
\* timed out.
C19_NoLoggingAfterStop ==
    [][ended_by_ui => ~SessionLogged]_allvars

\* C20: when the window was closed on a running session and the dialog
\* confirmed, the application has, by the time it exits, ended the session and
\* generated its report.
C20_CloseGeneratesReport ==
    (ui_pc = "exited" /\ close_confirmed)
        => (end_time # None /\ report = "generated")

\* An end() call on the session.
EndCalled == ncalls' = ncalls + 1 /\ last_op' = "end"

\* C24: end() is not idempotent.  A second end() on a session that was
\* started, logged to and ended once appends one further event for the
\* still-current state, with the type and the start of the entry the first
\* end() appended, and sets end_time to the later clock reading.
C24_SecondEndAppendsAgain ==
    [][(phase = "ended" /\ EndCalled)
          => /\ Len(events) >= 1
             /\ Len(events') = Len(events) + 1
             /\ SubSeq(events', 1, Len(events)) = events
             /\ events'[Len(events')].type = events[Len(events)].type
             /\ events'[Len(events')].start = events[Len(events)].start
             /\ events'[Len(events')].type = current_state
             /\ end_time' = now
             /\ end_time' >= end_time]_vars

\* The sum of the duration_seconds of a sequence of events.
RECURSIVE total_duration(_)
total_duration(evs) ==
    IF evs = <<>> THEN 0
    ELSE evs[1].duration_seconds + total_duration(Tail(evs))

\* C26: after start(), any log_event calls and one end(), the events tile the
\* session: the first event starts at start_time, each event ends where the
\* next one starts, the last event ends at end_time, and the durations add up
\* to get_duration().
C26_IntervalsTileSession ==
    phase = "ended"
        => /\ Len(events) >= 1
           /\ events[1].start = isoformat(start_time)
           /\ \A i \in 1 .. Len(events) - 1 : events[i].end = events[i + 1].start
           /\ events[Len(events)].end = isoformat(end_time)
           /\ total_duration(events) = get_duration

\* C27: get_duration() is never negative, whatever the order of the start,
\* log_event and end calls made so far.
C27_DurationNeverNegative ==
    get_duration >= 0

\* C28: every entry of events ends no earlier than it starts and its
\* duration_seconds is its end minus its start, whatever timestamps were
\* passed to log_event.
C28_EventsWellFormed ==
    \A i \in DOMAIN events :
        /\ fromisoformat(events[i].end) >= fromisoformat(events[i].start)
        /\ events[i].duration_seconds
              = fromisoformat(events[i].end) - fromisoformat(events[i].start)
        /\ events[i].duration_seconds >= 0

\* C25: at most one NotificationPopup window exists at a time, and once a
\* sample has shown the user refocused and the dismiss scheduled for it has
\* run, no alert popup of the finished unfocused run is on screen, also when
\* the refocus sample came during the 1.5 s between the alert and its popup.
C25_NoPopupAfterRefocus ==
    /\ popup_windows <= 1
    /\ (~is_unfocused(sample_kind) /\ dismiss_timers = <<>>)
          => active_popup = NoPopup

\* The processes whose acquire() returned True and that have not released.
Holders == {p \in Procs : acquire_result[p] = "True"}

\* C21: at any time at most one process has had acquire() return True without
\* having released, and while there is such a holder the acquire() of every
\* other process returns False.
C21_InstanceLockExcludes ==
    /\ [](Cardinality(Holders) <= 1)
    /\ [][\A p \in Procs :
            (lock_pc[p] = "opened" /\ lock_pc'[p] = "idle" /\ Holders \ {p} # {})
               => acquire_result'[p] = "False"]_allvars

LogStep ==
    \/ det_pc = "log" /\ det_pc' = "top" /\ old_pc' = old_pc
    \/ old_pc = "log" /\ old_pc' = "top"

\* A log_event() call on the session.
LogCalled == ncalls' = ncalls + 1 /\ last_op' = "log_event"

\* A start() call on the session.
StartCalled == ncalls' = ncalls + 1 /\ last_op' = "start"

\* C23: the Session of a GUI session gets start() at most once, and gets it
\* before any log_event (nothing is logged yet when start() is called); every
\* sample that reaches the end of its iteration gets one log_event call and
\* log_event is called nowhere else; log_event is never called on a session
\* start() was not called on.
C23_StartOnceThenLogPerSample ==
    /\ [](nstart <= 1)
    /\ [][StartCalled => (nchanges = 0 /\ events = <<>>)]_allvars
    /\ [][LogStep <=> LogCalled]_allvars
    /\ [][LogCalled => (nstart >= 1 /\ start_time # None)]_allvars

\* A step of the detection thread of the session before the current one.
OldStep == old_pc # "none" /\ old_pc' # old_pc

\* C29: once _start_session has made a new session, the detection thread of
\* the session before takes up no further classification, calls neither
\* start() nor log_event() and changes no field of the new Session, so that
\* the new thread alone polls and mutates it.
C29_OldThreadLeavesNewSession ==
    [][OldStep => /\ old_pc' # "detecting"
                  /\ ~SessionLogged
                  /\ fields' = fields
                  /\ UNCHANGED <<session_started, session_start_time>>]_allvars

\* C30: is_running is set only while the detection thread is in its loop (or
\* has left it on an error whose handler has still to run); whenever the
\* button reads "Start Session" is_running is False, and the stop path is
\* entered only from a button that reads "Stop Session".
C30_RunningOnlyWhileThreadActive ==
    /\ [](is_running => (is_alive \/ error_pending # "none"))
    /\ [](button_text = "Start Session" => ~is_running)
    /\ [][(ui_pc = "idle" /\ ui_pc' = "stop_join")
            => button_text = "Stop Session"]_allvars

====
